---- MODULE Spec2Model ----
(***************************************************************************)
(* Model of the sync client's crypto core (hmac, getHKDF, deriveKeys,      *)
(* getNonce, encrypt, decrypt) and of recordUtil's record resolution       *)
(* (resolve, mergeRecords, resolveRecords).                                *)
(*                                                                         *)
(* A Uint8Array is a sequence over 0..255.  JS numbers that may be         *)
(* fractional are rationals [n, d]; a millisecond clock reading, which can *)
(* exceed 32 bits, is a pair of 24-bit limbs [hi, lo] = hi * 2^24 + lo.    *)
(* The primitives of tweetnacl (hash, sign.keyPair.fromSeed, secretbox,    *)
(* secretbox.open, randomBytes) are outside the repository: hash and       *)
(* fromSeed are deterministic stand-ins of the right output length,        *)
(* secretbox is an ideal authenticated box, randomBytes is a choice.       *)
(***************************************************************************)
EXTENDS Integers, Sequences, FiniteSets, TLC

VARIABLES call, envelopes, issued

vars == <<call, envelopes, issued>>

\* ------------------------------------------------------------------ bounds

\* Number of successful encrypt calls that are followed.
MaxCalls == 2

\* Length of the longest list given to resolveRecords.
MaxRecords == 4

\* ------------------------------------------------------------- byte helpers

Byte == 0..255

Zeros(n) == [i \in 1..n |-> 0]

Ramp(n) == [i \in 1..n |-> (i * 7) % 256]

RECURSIVE Xor(_, _)
\* a ^ b on non-negative integers
Xor(a, b) ==
  IF a = 0 THEN b
  ELSE IF b = 0 THEN a
  ELSE (((a % 2) + (b % 2)) % 2) + 2 * Xor(a \div 2, b \div 2)

\* a ^ b for a pad byte a (0x36 or 0x5c) and any byte b, tabulated
XorByte == [a \in {54, 92} |-> [b \in Byte |-> Xor(a, b)]]

\* A value that is an instance of Uint8Array, and one that is not.
U8(bytes) == [u8 |-> TRUE, bytes |-> bytes]

NotU8(bytes) == [u8 |-> FALSE, bytes |-> bytes]

\* ------------------------------------------------------------------ constants

SEED_SIZE == 32

HKDF_SALT ==
  <<72, 203, 156, 43, 64, 229, 225, 127, 214, 158, 50, 29, 130, 186, 182, 207,
    6, 108, 47, 254, 245, 71, 198, 109, 44, 108, 32, 193, 221, 126, 119, 143,
    112, 113, 87, 184, 239, 231, 230, 234, 28, 135, 54, 42, 9, 243, 39, 30,
    179, 147, 194, 211, 212, 239, 225, 52, 192, 219, 145, 40, 95, 19, 142, 98>>

BLOCK_SIZE == 128

HASH_SIZE == 64

hashLength == 512 \div 8

crypto_sign_SEEDBYTES == 32

secretbox_keyLength == 32

secretbox_nonceLength == 24

\* ------------------------------------------------------- external: nacl.hash

RECURSIVE Mix(_, _, _)
\* position-weighted sum of m[lo..hi], halving the range
Mix(m, lo, hi) ==
  IF lo > hi THEN 0
  ELSE IF lo = hi THEN (m[lo] + 1) * (((lo * 31 + 7) % 251) + 1)
  ELSE LET mid == (lo + hi) \div 2
       IN  (Mix(m, lo, mid) + Mix(m, mid + 1, hi)) % 65521

\* nacl.hash: a deterministic digest of HASH_SIZE bytes (stand-in for SHA-512).
hash(m) ==
  LET s == (Mix(m, 1, Len(m)) + Len(m) + 7) % 65521
  IN  [j \in 1..HASH_SIZE |-> ((s + 1) * (j + 2) + (s \div 256)) % 256]

\* ----------------------------------------------------------------------- hmac

\* buf[0..BLOCK_SIZE) after "buf[i] = pad" and "buf[i] ^= key[i]"
PadBlock(pad, key) ==
  [i \in 1..BLOCK_SIZE |-> IF i <= Len(key) THEN XorByte[pad][key[i]] ELSE pad]

\* Body of hmac once both inputs passed the instanceof check of line 18.
hmac(message, key) ==
  LET k == IF Len(key) > BLOCK_SIZE THEN hash(key) ELSE key
      innerHash == hash(PadBlock(54, k) \o message)
  IN  hash(PadBlock(92, k) \o innerHash)

\* -------------------------------------------------------------------- getHKDF

\* Math.ceil(a / b) for a >= 0, b > 0
Ceil(a, b) == (a + b - 1) \div b

\* new Uint8Array(array): every element is stored modulo 256
ToUint8Array(a) == [k \in 1..Len(a) |-> a[k] % 256]

RECURSIVE Expand(_, _, _, _, _)
\* The loop "for (i = 1; i <= n; ++i)" run for i = lo..hi, with tPrev = t[lo - 1]:
\* the last block t[hi] and the blocks appended to okm.  The range is run in
\* two halves, the second starting from the last block of the first.
Expand(prk, info, lo, hi, tPrev) ==
  IF lo > hi THEN [t |-> tPrev, okm |-> <<>>]
  ELSE IF lo = hi
  THEN LET input == tPrev \o info \o <<lo>>
           ti == hmac(ToUint8Array(input), prk)
       IN  [t |-> ti, okm |-> ti]
  ELSE LET mid == (lo + hi) \div 2
           first == Expand(prk, info, lo, mid, tPrev)
           second == Expand(prk, info, mid + 1, hi, first.t)
       IN  [okm |-> first.okm \o second.okm, t |-> second.t]

\* okm.slice(0, len)
Slice(s, len) == SubSeq(s, 1, IF len < Len(s) THEN len ELSE Len(s))

\* Mutant of InvalidExtractLen: the upper limit itself is rejected.
InvalidExtractLen_Strict(extractLen) ==
  extractLen < 0 \/ extractLen >= hashLength * 255

\* extractLen < 0 || extractLen > hashLength * 255
InvalidExtractLen(extractLen) ==
  extractLen < 0 \/ extractLen > hashLength * 255

getHKDF(ikm, info, extractLen, salt) ==
  IF InvalidExtractLen(extractLen)
  THEN [status |-> "throw", error |-> "Invalid extract length.", bytes |-> <<>>]
  ELSE IF ~ikm.u8
  THEN [status |-> "throw", error |-> "Inputs must be Uint8Arrays.", bytes |-> <<>>]
  ELSE LET s == IF salt.u8 THEN salt.bytes ELSE Zeros(hashLength)
           prk == hmac(ikm.bytes, s)
           n == Ceil(extractLen, hashLength)
           okm == Expand(prk, info, 1, n, <<>>).okm
       IN  [status |-> "ok", error |-> "", bytes |-> Slice(okm, extractLen)]

\* ----------------------------------------------------------------- deriveKeys

\* nacl.sign.keyPair.fromSeed: the public key is a digest of the seed, the
\* secret key is seed || publicKey (stand-in for Ed25519).
keyPairFromSeed(seed) ==
  LET pk == SubSeq(hash(<<101>> \o seed), 1, 32)
  IN  [publicKey |-> pk, secretKey |-> seed \o pk]

HexChars ==
  <<"0", "1", "2", "3", "4", "5", "6", "7", "8", "9", "a", "b", "c", "d", "e", "f">>

\* byte.toString(16), padded with '0' to two characters
HexByte(byte) == <<HexChars[(byte \div 16) + 1], HexChars[(byte % 16) + 1]>>

RECURSIVE Fingerprint(_, _)
\* result.publicKey.forEach(...): the characters appended from byte i on
Fingerprint(publicKey, i) ==
  IF i > Len(publicKey) THEN <<>>
  ELSE HexByte(publicKey[i]) \o Fingerprint(publicKey, i + 1)

NoKeys ==
  [publicKey |-> <<>>, secretKey |-> <<>>, fingerprint |-> <<>>, secretboxKey |-> <<>>]

\* the two info labels of deriveKeys
SigningInfo == <<0>>

SecretboxInfo == <<1>>

deriveKeys(seed) ==
  IF ~seed.u8
  THEN [status |-> "throw", error |-> "Seed must be Uint8Array.", keys |-> NoKeys]
  ELSE LET output == getHKDF(seed, SigningInfo, crypto_sign_SEEDBYTES, U8(HKDF_SALT))
           pair == keyPairFromSeed(output.bytes)
           box == getHKDF(seed, SecretboxInfo, secretbox_keyLength, U8(HKDF_SALT))
       IN  [status |-> "ok", error |-> "",
            keys |-> [publicKey |-> pair.publicKey,
                      secretKey |-> pair.secretKey,
                      fingerprint |-> Fingerprint(pair.publicKey, 1),
                      secretboxKey |-> box.bytes]]

\* ------------------------------------------------------------------- getNonce

\* A JS number n / d (NaN is 0 / 0: every comparison with it is false), or a
\* value that is not of type number.
Num(n, d) == [type |-> "number", n |-> n, d |-> d]

NaN == Num(0, 0)

Str(n) == [type |-> "string", n |-> n, d |-> 1]

\* A clock reading hi * 2^24 + lo, in milliseconds.
Limb == 4096 * 4096

Ms(hi, lo) == [hi |-> hi, lo |-> lo]

\* Math.pow(256, 6)
Pow256_6 == Ms(Limb, 0)

\* a > b on clock readings
TimeGreater(a, b) == a.hi > b.hi \/ (a.hi = b.hi /\ a.lo > b.lo)

RECURSIVE HexDigits(_)
\* n.toString(16) for an integer n >= 0, as digits 0..15
HexDigits(n) ==
  IF n < 16 THEN <<n>> ELSE HexDigits(n \div 16) \o <<n % 16>>

\* "while (hexTime.length < width) hexTime = '0' + hexTime"
PadLeft(digits, width) ==
  IF Len(digits) >= width THEN digits
  ELSE [k \in 1..(width - Len(digits)) |-> 0] \o digits

\* time.toString(16)
TimeToHex(time) ==
  IF time.hi = 0 THEN HexDigits(time.lo)
  ELSE HexDigits(time.hi) \o PadLeft(HexDigits(time.lo), 6)

\* Number('0x' + hexTime[2 * i] + hexTime[2 * i + 1]) for i = 0..5
TimeBytes(time) ==
  LET hexTime == PadLeft(TimeToHex(time), 12)
  IN  [i \in 1..6 |-> 16 * hexTime[2 * i - 1] + hexTime[2 * i]]

\* typeof deviceId !== 'number' || deviceId < 0 || deviceId > 255
InvalidDeviceId(deviceId) ==
  \/ deviceId.type # "number"
  \/ deviceId.n < 0
  \/ deviceId.n > 255 * deviceId.d

\* time > Math.pow(256, 6)
TimeTooFar(time) == TimeGreater(time, Pow256_6)

\* "nonce[0] = deviceId" on a Uint8Array: the integer part, modulo 256; 0 for NaN
ToUint8(x) == IF x.d = 0 THEN 0 ELSE (x.n \div x.d) % 256

\* What the external reads of a call return when the call does not make them.
NoTime == Ms(0 - 1, 0)

NoRandom == <<>>

\* Mutant of getNonce: the random bytes are drawn but never copied into the
\* nonce (the call "nonce.set(nacl.randomBytes(4), 1)" is lost).
getNonce_NoRandom(deviceId, time, random) ==
  IF deviceId.type # "number" \/ deviceId.n < 0 \/ deviceId.n > 255 * deviceId.d
  THEN [status |-> "throw", error |-> "Invalid device ID", reads |-> 0, nonce |-> <<>>]
  ELSE IF TimeGreater(time, Pow256_6)
  THEN [status |-> "throw", error |-> "Timestamp is too far in the future.",
        reads |-> 1, nonce |-> <<>>]
  ELSE [status |-> "ok", error |-> "", reads |-> 2,
        nonce |-> [k \in 1..secretbox_nonceLength |->
                     IF k = 1 THEN ToUint8(deviceId)
                     ELSE IF k <= 5 THEN 0
                     ELSE IF k <= 11 THEN TimeBytes(time)[k - 5]
                     ELSE 0]]

\* getNonce with the clock reading and the 4 random bytes it would be given;
\* reads counts the external reads made before it returns or throws.
getNonce(deviceId, time, random) ==
  IF InvalidDeviceId(deviceId)
  THEN [status |-> "throw", error |-> "Invalid device ID", reads |-> 0, nonce |-> <<>>]
  ELSE IF TimeTooFar(time)
  THEN [status |-> "throw", error |-> "Timestamp is too far in the future.",
        reads |-> 1, nonce |-> <<>>]
  ELSE [status |-> "ok", error |-> "", reads |-> 2,
        nonce |-> [k \in 1..secretbox_nonceLength |->
                     IF k = 1 THEN ToUint8(deviceId)
                     ELSE IF k <= 5 THEN random[k - 1]
                     ELSE IF k <= 11 THEN TimeBytes(time)[k - 5]
                     ELSE 0]]

\* ------------------------------------------------------------ encrypt, decrypt

\* nacl.secretbox: an ideal authenticated box, which opens only under the
\* nonce and key that sealed it and only if it was not altered.
NoBox == [sealed |-> <<>>, nonce |-> <<>>, key |-> <<>>, intact |-> FALSE]

secretbox(message, nonce, key) ==
  [sealed |-> message, nonce |-> nonce, key |-> key, intact |-> TRUE]

\* nacl.secretbox.open: the message, or the value false
secretbox_open(box, nonce, key) ==
  IF box.intact /\ box.nonce = nonce /\ box.key = key
  THEN [opened |-> TRUE, bytes |-> box.sealed]
  ELSE [opened |-> FALSE, bytes |-> <<>>]

\* Mutant of encrypt: the envelope carries a nonce built by a second call of
\* getNonce, whose random bytes differ from those of the sealing nonce.
encrypt_SecondNonce(message, secretboxKey, deviceId, time, random) ==
  LET n == getNonce(deviceId, time, random)
      m == getNonce(deviceId, time, [k \in 1..4 |-> (random[k] + 1) % 256])
  IN  IF n.status = "throw"
      THEN [status |-> "throw", error |-> n.error, reads |-> n.reads,
            nonce |-> <<>>, ciphertext |-> NoBox]
      ELSE [status |-> "ok", error |-> "", reads |-> n.reads,
            nonce |-> m.nonce,
            ciphertext |-> secretbox(message, n.nonce, secretboxKey)]

encrypt(message, secretboxKey, deviceId, time, random) ==
  LET n == getNonce(deviceId, time, random)
  IN  IF n.status = "throw"
      THEN [status |-> "throw", error |-> n.error, reads |-> n.reads,
            nonce |-> <<>>, ciphertext |-> NoBox]
      ELSE [status |-> "ok", error |-> "", reads |-> n.reads,
            nonce |-> n.nonce,
            ciphertext |-> secretbox(message, n.nonce, secretboxKey)]

decrypt(ciphertext, nonce, secretboxKey) ==
  secretbox_open(ciphertext, nonce, secretboxKey)

\* --------------------------------------------------- claims on the cipher core

\* C2: round trip.  Opening the ciphertext of an envelope with the envelope's
\* nonce and the key that sealed it returns exactly the message, the empty
\* message included; the nonce of the envelope is the nonce that sealed it.
C2_RoundTrip ==
  /\ (call.op = "encrypt" /\ call.status = "ok") =>
       (call.ciphertext.nonce = call.nonce /\ call.ciphertext.key = call.key)
  /\ (/\ call.op = "decrypt"
      /\ call.ciphertext = call.envelope.ciphertext
      /\ call.nonce = call.envelope.nonce
      /\ call.key = call.sealKey)
       => (call.opened /\ call.bytes = call.message)

\* C2 witness: the envelope of the empty message was opened with its own
\* nonce and key.
C2_Witness ==
  /\ call.op = "decrypt"
  /\ call.message = <<>>
  /\ call.ciphertext = call.envelope.ciphertext
  /\ call.nonce = call.envelope.nonce
  /\ call.key = call.sealKey
  /\ call.opened

\* C3 as claimed: no two returned envelopes carry the same nonce, that is, the
\* envelopes returned so far carry as many nonces as there are envelopes.
C3_NonceNeverReused ==
  Cardinality({e.nonce : e \in envelopes}) = issued

\* The clock reading a nonce stores: 2^48 ms, which getNonce accepts, is
\* written as 2^44 ms.
C3_StoredTime(time) == IF time = Ms(Limb, 0) THEN Ms(1024 * 1024, 0) ELSE time

\* The device byte of an accepted deviceId: its integer part, 0 for NaN.
C3_DeviceByte(deviceId) ==
  IF deviceId.d = 0 THEN 0 ELSE deviceId.n \div deviceId.d

\* C3 as amended: two returned envelopes carry the same nonce exactly when
\* their calls had the same device byte (deviceId cut to an integer), drew the
\* same 4 random bytes and read the same clock value (2^48 ms counting as
\* 2^44 ms).
C3_NonceReusedOnlyOnEqualReads ==
  \A e1 \in envelopes, e2 \in envelopes :
    (e1.nonce = e2.nonce) <=>
      /\ C3_DeviceByte(e1.deviceId) = C3_DeviceByte(e2.deviceId)
      /\ e1.random = e2.random
      /\ C3_StoredTime(e1.time) = C3_StoredTime(e2.time)

\* C3 witness: two envelopes of the same deviceId and clock reading whose
\* random bytes, and hence nonces, differ.
C3_Witness ==
  /\ issued = 2
  /\ \E e1 \in envelopes, e2 \in envelopes :
       /\ e1.deviceId = e2.deviceId
       /\ e1.time = e2.time
       /\ e1.random # e2.random
       /\ e1.nonce # e2.nonce

\* The big-endian 48-bit encoding of a clock reading.
C4_BE48(time) ==
  <<(time.hi \div 65536) % 256, (time.hi \div 256) % 256, time.hi % 256,
    (time.lo \div 65536) % 256, (time.lo \div 256) % 256, time.lo % 256>>

\* C4: whenever getNonce returns, the result is 24 bytes: byte 0 is deviceId,
\* bytes 1-4 are the random bytes drawn, bytes 5-10 are the big-endian 48-bit
\* encoding of the clock reading, bytes 11-23 are zero.
C4_NonceLayout ==
  (call.op = "getNonce" /\ call.status = "ok") =>
    /\ Len(call.nonce) = 24
    /\ call.deviceId.d > 0
    /\ call.nonce[1] * call.deviceId.d = call.deviceId.n
    /\ SubSeq(call.nonce, 2, 5) = call.random
    /\ SubSeq(call.nonce, 6, 11) = C4_BE48(call.time)
    /\ SubSeq(call.nonce, 12, 24) = Zeros(13)

\* C6: getNonce, and therefore encrypt, fails and produces no nonce and no
\* ciphertext for every deviceId that is not an integer in [0, 255].
C6_InvalidDeviceIdRejected ==
  (/\ call.op \in {"getNonce", "encrypt"}
   /\ ~(/\ call.deviceId.type = "number"
        /\ call.deviceId.d > 0
        /\ call.deviceId.n % call.deviceId.d = 0
        /\ 0 <= call.deviceId.n
        /\ call.deviceId.n <= 255 * call.deviceId.d))
    => (/\ call.status = "throw"
        /\ call.nonce = <<>>
        /\ (call.op = "encrypt" => call.ciphertext = NoBox))

\* C7: getNonce fails for every clock reading t >= 2^48 ms, 2^48 included.
C7_ClockFrom2Pow48Rejected ==
  (/\ call.op \in {"getNonce", "encrypt"}
   /\ call.time # NoTime
   /\ call.time.hi >= Limb)
    => call.status = "throw"

\* ----------------------------------------------------- recordUtil: records

\* A sync record as a JS object: data is record[record.objectData], a map
\* from field names to values.  Values are integers (0 for '' and 0, Undef
\* for undefined), except the bookmark field "site", which is a map itself.
Rec(action, objectId, objectData, data) ==
  [action |-> action, objectId |-> objectId, objectData |-> objectData, data |-> data]

EmptyData == [f \in {} |-> 0]

NoRecord == Rec("", 0, "", EmptyData)

Undef == 0 - 1

\* A browser object, or the absence of one (a falsy existingObject).
Obj(objectData, data) == [present |-> TRUE, objectData |-> objectData, data |-> data]

NoObject == [present |-> FALSE, objectData |-> "", data |-> EmptyData]

\* What a function of recordUtil hands back: a record, null, or an error
\* thrown; mutated is the value its argument record holds afterwards.
Returned(record, mutated) ==
  [status |-> "ok", null |-> FALSE, record |-> record, mutated |-> mutated]

ReturnedNull(mutated) ==
  [status |-> "ok", null |-> TRUE, record |-> NoRecord, mutated |-> mutated]

Thrown(mutated) ==
  [status |-> "throw", null |-> FALSE, record |-> NoRecord, mutated |-> mutated]

\* Object.assign({}, a, b) on field maps
Assign(a, b) ==
  [f \in (DOMAIN a) \cup (DOMAIN b) |-> IF f \in DOMAIN b THEN b[f] ELSE a[f]]

\* a field that is present and truthy
Truthy(data, f) == f \in DOMAIN data /\ data[f] > 0

\* ---------------------------------------------------------- createFromUpdate

createSitePropsFromUpdateSite(site, now) ==
  LET defaultProps ==
        [title |-> 0,
         customTitle |-> IF "location" \in DOMAIN site THEN site.location ELSE Undef,
         lastAccessedTime |-> now,
         creationTime |-> now]
  IN  Assign(defaultProps, site)

\* isValidRecord of createFromUpdateBookmark
isValidBookmark(bookmark) ==
  /\ "site" \in DOMAIN bookmark
  /\ \/ Truthy(bookmark.site, "location")
     \/ (Truthy(bookmark.site, "customTitle") /\ Truthy(bookmark, "folderId"))

\* mapUpdateToCreate of createFromUpdateBookmark
mapBookmark(bookmark, now) ==
  IF Truthy(bookmark, "folderId")
  THEN Assign([isFolder |-> 1], bookmark)
  ELSE Assign(Assign([isFolder |-> 0], bookmark),
              [site |-> createSitePropsFromUpdateSite(bookmark.site, now)])

\* The function CreateFromUpdate(type, isValidRecord, mapUpdateToCreate)
\* returns, applied to record: Object.assign changes record itself.
CreateFromUpdate(record, isValid, props) ==
  IF ~isValid THEN ReturnedNull(record)
  ELSE LET created == [record EXCEPT !.action = "CREATE", !.data = props]
       IN  Returned(created, created)

createFromUpdate(record, now) ==
  IF record.action # "UPDATE" THEN Thrown(record)
  ELSE CASE record.objectData = "bookmark" ->
              CreateFromUpdate(record, isValidBookmark(record.data),
                               mapBookmark(record.data, now))
         [] record.objectData = "historySite" ->
              CreateFromUpdate(record, Truthy(record.data, "location"),
                               createSitePropsFromUpdateSite(record.data, now))
         [] record.objectData = "siteSetting" ->
              CreateFromUpdate(record, Truthy(record.data, "hostPattern"), record.data)
         [] OTHER -> ReturnedNull(record)

\* ------------------------------------------------------------------- resolve

pickFields(object, fields) == [f \in fields \cap DOMAIN object |-> object[f]]

commonFields == {"hostPattern"}

\* Mutant of UpdateField: the common fields are not set aside, so a record
\* that differs from the object in hostPattern alone still resolves.
UpdateField_CommonCounted(record, existingObject, field) ==
  \/ field \notin DOMAIN existingObject.data
  \/ existingObject.data[field] # record.data[field]

\* resolveField for an UPDATE
UpdateField(record, existingObject, field) ==
  /\ field \notin commonFields
  /\ \/ field \notin DOMAIN existingObject.data
     \/ existingObject.data[field] # record.data[field]

\* resolveField for a DELETE
DeleteField(record, existingObject, field) ==
  /\ field \notin commonFields
  /\ field \in DOMAIN existingObject.data

resolveRecordWithObject(record, existingObject) ==
  IF existingObject.objectData # record.objectData
  THEN Thrown(record)  \* Object.keys(existingObject[type]) of undefined
  ELSE IF record.action \notin {"UPDATE", "DELETE"}
  THEN Thrown(record)
  ELSE LET recordFields == DOMAIN record.data
           resolvedFields ==
             {f \in recordFields :
                IF record.action = "UPDATE"
                THEN UpdateField(record, existingObject, f)
                ELSE DeleteField(record, existingObject, f)}
           resolvedData == pickFields(record.data, resolvedFields)
       IN  IF resolvedFields = {} THEN ReturnedNull(record)
           ELSE Returned(
                  [record EXCEPT !.data =
                     Assign(resolvedData,
                            pickFields(record.data, commonFields \cap recordFields))],
                  record)

\* "x || nullIgnore()"
OrNull(r) == IF r.status = "ok" /\ r.null THEN ReturnedNull(r.mutated) ELSE r

resolve(record, existingObject, now) ==
  CASE record.action = "CREATE" ->
         IF existingObject.present THEN ReturnedNull(record)
         ELSE Returned(record, record)
    [] record.action = "UPDATE" ->
         OrNull(IF existingObject.present
                THEN resolveRecordWithObject(record, existingObject)
                ELSE createFromUpdate(record, now))
    [] record.action = "DELETE" ->
         OrNull(IF existingObject.present
                THEN resolveRecordWithObject(record, existingObject)
                ELSE ReturnedNull(record))
    [] OTHER -> Thrown(record)

\* -------------------------------------------------------------- mergeRecords

RECURSIVE MergeData(_, _)
\* lodash merge on field maps: the fields of data2 are written over data1,
\* a map-valued field ("site") being merged field by field.
MergeData(data1, data2) ==
  [f \in (DOMAIN data1) \cup (DOMAIN data2) |->
     IF f \notin DOMAIN data2 THEN data1[f]
     ELSE IF f = "site" /\ f \in DOMAIN data1 THEN MergeData(data1[f], data2[f])
     ELSE data2[f]]

\* merge(record1, record2): the value record1 holds afterwards
merge(record1, record2) ==
  Rec(record2.action, record2.objectId, record2.objectData,
      MergeData(record1.data, record2.data))

\* mergeRecord throws when the objectData of the two records differ
MismatchedObjectData(record1, record2) == record1.objectData # record2.objectData

\* The state of the loop of mergeRecords.  heap[n] is the value now held by
\* the record object of input item n (merge changes its first argument in
\* place); an output item refers to its record object by that position.
\* idsAndIndices maps an objectId to a position of outputList.
LoopStart(recordsAndObjects) ==
  [status |-> "ok",
   heap |-> [n \in 1..Len(recordsAndObjects) |-> recordsAndObjects[n].record],
   idsAndIndices |-> [id \in {} |-> 0],
   outputList |-> <<>>]

\* One pass of the loop body, for input item n.
LoopBody(recordsAndObjects, n, st) ==
  LET object == recordsAndObjects[n].object
      id == st.heap[n].objectId
  IN  IF id \in DOMAIN st.idsAndIndices
      THEN LET previousIndex == st.idsAndIndices[id]
               \* recordsAndObjects[previousIndex][0]
               previousRecord == st.heap[previousIndex]
           IN  IF MismatchedObjectData(previousRecord, st.heap[n])
               THEN [st EXCEPT !.status = "throw"]
               ELSE [st EXCEPT
                       !.heap[previousIndex] = merge(previousRecord, st.heap[n]),
                       !.outputList[previousIndex] =
                          [ref |-> previousIndex, object |-> object]]
      ELSE [st EXCEPT
              !.idsAndIndices = Assign(st.idsAndIndices,
                                       [i \in {id} |-> Len(st.outputList) + 1]),
              !.outputList = Append(st.outputList, [ref |-> n, object |-> object])]

RECURSIVE Loop(_, _, _)
Loop(recordsAndObjects, n, st) ==
  IF n > Len(recordsAndObjects) \/ st.status = "throw" THEN st
  ELSE Loop(recordsAndObjects, n + 1, LoopBody(recordsAndObjects, n, st))

mergeRecords(recordsAndObjects) ==
  Loop(recordsAndObjects, 1, LoopStart(recordsAndObjects))

\* The list mergeRecords returns, each record object by its value.
OutputValues(st) ==
  [k \in 1..Len(st.outputList) |->
     [record |-> st.heap[st.outputList[k].ref], object |-> st.outputList[k].object]]

\* ------------------------------------------------------------- resolveRecords

RECURSIVE ForEach(_, _, _, _, _)
\* merged.forEach(...) from item k on: a resolve may change the record object
\* it is given, which a later item may refer to as well.
ForEach(outputList, k, heap, resolvedRecords, now) ==
  IF k > Len(outputList) THEN [status |-> "ok", resolvedRecords |-> resolvedRecords]
  ELSE LET item == outputList[k]
           resolved == resolve(heap[item.ref], item.object, now)
       IN  IF resolved.status = "throw"
           THEN [status |-> "throw", resolvedRecords |-> <<>>]
           ELSE ForEach(outputList, k + 1,
                        [heap EXCEPT ![item.ref] = resolved.mutated],
                        IF resolved.null THEN resolvedRecords
                        ELSE Append(resolvedRecords, resolved.record),
                        now)

resolveRecords(recordsAndExistingObjects, now) ==
  LET merged == mergeRecords(recordsAndExistingObjects)
  IN  IF merged.status = "throw"
      THEN [status |-> "throw", mergeStatus |-> "throw", merged |-> <<>>,
            resolvedRecords |-> <<>>]
      ELSE LET each == ForEach(merged.outputList, 1, merged.heap, <<>>, now)
           IN  [status |-> each.status, mergeStatus |-> "ok",
                merged |-> OutputValues(merged),
                resolvedRecords |-> each.resolvedRecords]

\* ------------------------------------------------------ calls on the key core

\* No call is in progress: the caller may invoke any exported function.
Idle == [op |-> "idle", status |-> "ok"]

\* The caller takes the result (or catches the error) of the last call.
Return ==
  /\ call.op # "idle"
  /\ call' = Idle
  /\ UNCHANGED <<envelopes, issued>>

SeedLengths == {0, 16, 31, SEED_SIZE, 33, 64}

Seeds ==
  {U8(Zeros(n)) : n \in SeedLengths} \cup {U8(Ramp(n)) : n \in SeedLengths}
    \cup {NotU8(Zeros(SEED_SIZE))}

Ikms == {U8(Zeros(SEED_SIZE)), U8(Ramp(SEED_SIZE)), NotU8(Ramp(SEED_SIZE))}

Infos == {<<>>, <<0>>, <<1>>}

ExtractLens == {-1, 0, 1, 32, 63, 64, 65, 130}

\* the two sides of the upper limit of extractLen
LimitExtractLens == {hashLength * 255, hashLength * 255 + 1}

Salts == {U8(HKDF_SALT), NotU8(<<>>), U8(Ramp(BLOCK_SIZE + 2))}

HkdfCalls ==
  (Ikms \X Infos \X ExtractLens \X Salts)
    \cup ({U8(Ramp(SEED_SIZE))} \X {<<1>>} \X LimitExtractLens
            \X {U8(HKDF_SALT), NotU8(<<>>)})

DeriveKeys ==
  /\ call.op = "idle"
  /\ \E seed \in Seeds :
       LET r == deriveKeys(seed)
       IN  call' = [op |-> "deriveKeys", seed |-> seed, status |-> r.status,
                    error |-> r.error, keys |-> r.keys]
  /\ UNCHANGED <<envelopes, issued>>

GetHKDF ==
  /\ call.op = "idle"
  /\ \E c \in HkdfCalls :
       LET r == getHKDF(c[1], c[2], c[3], c[4])
       IN  call' = [op |-> "getHKDF", ikm |-> c[1], info |-> c[2],
                    extractLen |-> c[3], salt |-> c[4],
                    status |-> r.status, error |-> r.error, bytes |-> r.bytes]
  /\ UNCHANGED <<envelopes, issued>>

InitIdle ==
  /\ call = Idle
  /\ envelopes = {}
  /\ issued = 0

NextKeys == DeriveKeys \/ GetHKDF \/ Return

SpecKeys == InitIdle /\ [][NextKeys]_vars

\* ---------------------------------------------------- calls on the cipher core

DeviceIds ==
  {Num(0 - 1, 1), Num(1, 1), Num(3, 2), Num(255, 1), Num(511, 2), Num(256, 1),
   NaN, Str(7)}

\* 258 ms, 2^44 ms, 2^48 - 1 ms, 2^48 ms, 2^48 + 1 ms
Times ==
  {Ms(0, 258), Ms(1024 * 1024, 0), Ms(Limb - 1, Limb - 1), Ms(Limb, 0), Ms(Limb, 1)}

\* nacl.randomBytes(4)
RandomDraws == {<<0, 0, 0, 0>>, <<222, 173, 190, 239>>}

Messages == {<<>>, <<104, 105>>}

SecretboxKey == Ramp(secretbox_keyLength)

Keys == {SecretboxKey, Zeros(secretbox_keyLength)}

GetNonce ==
  /\ call.op = "idle"
  /\ \E deviceId \in DeviceIds, time \in Times, random \in RandomDraws :
       LET r == getNonce(deviceId, time, random)
       IN  call' = [op |-> "getNonce", deviceId |-> deviceId,
                    time |-> IF r.reads >= 1 THEN time ELSE NoTime,
                    random |-> IF r.reads = 2 THEN random ELSE NoRandom,
                    status |-> r.status, error |-> r.error, nonce |-> r.nonce]
  /\ UNCHANGED <<envelopes, issued>>

\* envelopes remembers, for every envelope returned, its nonce and the
\* deviceId, clock reading and random bytes of the call that returned it;
\* issued counts the envelopes returned.
Encrypt ==
  /\ call.op = "idle"
  /\ issued < MaxCalls
  /\ \E message \in Messages, deviceId \in DeviceIds, time \in Times,
        random \in RandomDraws :
       LET r == encrypt(message, SecretboxKey, deviceId, time, random)
       IN  /\ call' = [op |-> "encrypt", message |-> message, key |-> SecretboxKey,
                       deviceId |-> deviceId,
                       time |-> IF r.reads >= 1 THEN time ELSE NoTime,
                       random |-> IF r.reads = 2 THEN random ELSE NoRandom,
                       status |-> r.status, error |-> r.error,
                       nonce |-> r.nonce, ciphertext |-> r.ciphertext]
           /\ IF r.status = "ok"
              THEN /\ envelopes' = envelopes \cup
                         {[deviceId |-> deviceId, time |-> time,
                           random |-> random, nonce |-> r.nonce]}
                   /\ issued' = issued + 1
              ELSE UNCHANGED <<envelopes, issued>>

\* The receiver opens the envelope just returned, with the right or a wrong
\* key, the envelope's nonce or another one, the ciphertext as sent or altered.
Decrypt ==
  /\ call.op = "encrypt"
  /\ call.status = "ok"
  /\ \E key \in Keys, nonce \in {call.nonce, Zeros(secretbox_nonceLength)},
        ciphertext \in {call.ciphertext, [call.ciphertext EXCEPT !.intact = FALSE]} :
       LET r == decrypt(ciphertext, nonce, key)
       IN  call' = [op |-> "decrypt", message |-> call.message, sealKey |-> call.key,
                    envelope |-> [nonce |-> call.nonce, ciphertext |-> call.ciphertext],
                    ciphertext |-> ciphertext, nonce |-> nonce, key |-> key,
                    status |-> "ok", opened |-> r.opened, bytes |-> r.bytes]
  /\ UNCHANGED <<envelopes, issued>>

Next == GetNonce \/ Encrypt \/ Decrypt \/ Return

Spec == InitIdle /\ [][Next]_vars

\* -------------------------------------------------------- calls on recordUtil

\* Date.now()
Nows == {1500}

SettingFields == {"hostPattern", "zoomLevel", "shieldsUp"}

SettingData ==
  {pickFields(full, fields) :
     full \in [hostPattern : {1, 2}, zoomLevel : {1, 2}, shieldsUp : {1}],
     fields \in SUBSET SettingFields}

ResolveRecordsOf ==
  {Rec(action, 1, "siteSetting", data) :
     action \in {"CREATE", "UPDATE", "DELETE"}, data \in SettingData}

ResolveObjects ==
  {NoObject, Obj("historySite", [location |-> 1])}
    \cup {Obj("siteSetting", data) : data \in SettingData}

\* Records of the other kinds, resolved without and with a browser object.
OtherResolveCalls ==
  {<<Rec("UPDATE", 2, "historySite", [location |-> 1]), NoObject>>,
   <<Rec("UPDATE", 2, "historySite", [title |-> 2]), NoObject>>,
   <<Rec("UPDATE", 2, "historySite", [location |-> 1, title |-> 2]),
     Obj("historySite", [location |-> 1, title |-> 1])>>,
   <<Rec("UPDATE", 3, "bookmark", [site |-> [location |-> 1]]), NoObject>>,
   <<Rec("UPDATE", 3, "bookmark", [site |-> [customTitle |-> 2], folderId |-> 5]),
     NoObject>>,
   <<Rec("UPDATE", 3, "bookmark", [site |-> [customTitle |-> 2], folderId |-> 0]),
     NoObject>>,
   <<Rec("UPDATE", 3, "bookmark", [site |-> [location |-> 1], folderId |-> 0]),
     Obj("bookmark", [site |-> [location |-> 2], folderId |-> 0])>>,
   <<Rec("UPDATE", 4, "device", [name |-> 1]), NoObject>>,
   <<Rec("MERGE", 4, "device", [name |-> 1]), NoObject>>}

ResolveCalls == (ResolveRecordsOf \X ResolveObjects) \cup OtherResolveCalls

Pair(record, object) == [record |-> record, object |-> object]

RecordsAndObjects ==
  {Pair(Rec("UPDATE", 1, "historySite", [location |-> 1]), NoObject),
   Pair(Rec("UPDATE", 1, "historySite", [title |-> 2]), NoObject),
   Pair(Rec("UPDATE", 2, "historySite", [location |-> 3, customTitle |-> 1]),
        Obj("historySite", [location |-> 3])),
   Pair(Rec("UPDATE", 2, "historySite", [title |-> 4]),
        Obj("historySite", [location |-> 3])),
   Pair(Rec("DELETE", 3, "siteSetting", [hostPattern |-> 1, zoomLevel |-> 1]),
        Obj("siteSetting", [hostPattern |-> 1, zoomLevel |-> 1])),
   Pair(Rec("UPDATE", 4, "bookmark", [site |-> [location |-> 1]]), NoObject),
   Pair(Rec("UPDATE", 4, "bookmark", [site |-> [customTitle |-> 2], folderId |-> 0]),
        NoObject)}

Lists == UNION {[1..len -> RecordsAndObjects] : len \in 0..MaxRecords}

Resolve ==
  /\ call.op = "idle"
  /\ \E c \in ResolveCalls, now \in Nows :
       LET r == resolve(c[1], c[2], now)
       IN  call' = [op |-> "resolve", record |-> c[1], existingObject |-> c[2],
                    status |-> r.status, null |-> r.null, result |-> r.record]
  /\ UNCHANGED <<envelopes, issued>>

ResolveRecords ==
  /\ call.op = "idle"
  /\ \E list \in Lists, now \in Nows :
       LET r == resolveRecords(list, now)
       IN  call' = [op |-> "resolveRecords", input |-> list, status |-> r.status,
                    mergeStatus |-> r.mergeStatus, merged |-> r.merged,
                    resolvedRecords |-> r.resolvedRecords]
  /\ UNCHANGED <<envelopes, issued>>

NextRecords == Resolve \/ ResolveRecords \/ Return

SpecRecords == InitIdle /\ [][NextRecords]_vars

\* ------------------------------------------------------- claims on recordUtil

RECURSIVE C9_Ids(_, _, _)
\* the distinct objectIds of the input, in order of first appearance
C9_Ids(input, n, ids) ==
  IF n > Len(input) THEN ids
  ELSE C9_Ids(input, n + 1,
              IF \E k \in 1..Len(ids) : ids[k] = input[n].record.objectId THEN ids
              ELSE Append(ids, input[n].record.objectId))

RECURSIVE C9_Merged(_, _, _, _)
\* the merge, in input order, of the input records from n on whose objectId is id
C9_Merged(input, id, n, acc) ==
  IF n > Len(input) THEN acc
  ELSE C9_Merged(input, id, n + 1,
                 IF input[n].record.objectId # id THEN acc
                 ELSE IF acc = NoRecord THEN input[n].record
                 ELSE Rec(input[n].record.action, id, input[n].record.objectData,
                          MergeData(acc.data, input[n].record.data)))

\* C9: for every input list, mergeRecords returns exactly one entry per
\* distinct objectId, in order of first appearance, whose record is the
\* merge, in input order, of all input records having that objectId; records
\* with different objectIds are never merged into each other.
C9_OneEntryPerObjectId ==
  (call.op = "resolveRecords" /\ call.mergeStatus = "ok") =>
    LET ids == C9_Ids(call.input, 1, <<>>)
    IN  /\ Len(call.merged) = Len(ids)
        /\ \A k \in 1..Len(ids) :
             call.merged[k].record = C9_Merged(call.input, ids[k], 1, NoRecord)

\* the record's fields that are absent from the object or differ from it
C10_Changed(record, object) ==
  {f \in DOMAIN record.data :
     f \notin DOMAIN object.data \/ object.data[f] # record.data[f]}

\* C10: an UPDATE resolved against a matching existing object returns a
\* record whose objectData holds exactly the record's fields that are absent
\* from the object or differ from it, plus hostPattern when the record
\* carries it; when no field other than hostPattern is absent or different,
\* resolve returns null.
C10_UpdateKeepsChangedFields ==
  (/\ call.op = "resolve"
   /\ call.record.action = "UPDATE"
   /\ call.existingObject.present
   /\ call.existingObject.objectData = call.record.objectData) =>
    LET changed == C10_Changed(call.record, call.existingObject)
        kept == changed \cup ({"hostPattern"} \cap DOMAIN call.record.data)
    IN  /\ call.status = "ok"
        /\ call.null <=> (changed \ {"hostPattern"} = {})
        /\ ~call.null =>
             /\ DOMAIN call.result.data = kept
             /\ \A f \in kept : call.result.data[f] = call.record.data[f]
             /\ call.result.action = "UPDATE"
             /\ call.result.objectId = call.record.objectId
             /\ call.result.objectData = call.record.objectData

\* C10 witness: an update that changes one field, repeats another and
\* carries an unchanged hostPattern, which the result keeps.
C10_Witness ==
  /\ call.op = "resolve"
  /\ call.record.action = "UPDATE"
  /\ call.existingObject.present
  /\ call.existingObject.objectData = "siteSetting"
  /\ call.record.objectData = "siteSetting"
  /\ DOMAIN call.record.data = SettingFields
  /\ DOMAIN call.existingObject.data = SettingFields
  /\ call.existingObject.data.hostPattern = call.record.data.hostPattern
  /\ call.existingObject.data.shieldsUp = call.record.data.shieldsUp
  /\ ~call.null
  /\ DOMAIN call.result.data = {"hostPattern", "zoomLevel"}

\* ------------------------------------------------------ claims on the key core

\* C5: deriveKeys fails, returning no key bundle, for every seed that is not
\* exactly SEED_SIZE (32) bytes long.
C5_SeedLengthRejected ==
  (call.op = "deriveKeys" /\ Len(call.seed.bytes) # SEED_SIZE)
    => (call.status = "throw" /\ call.keys = NoKeys)

\* The pseudorandom key and the i-th 64-byte chunk of an HKDF output.
C8_Prk(c) ==
  hmac(c.ikm.bytes, IF c.salt.u8 THEN c.salt.bytes ELSE Zeros(64))

C8_Chunk(bytes, i) ==
  IF i = 0 THEN <<>>
  ELSE SubSeq(bytes, 64 * (i - 1) + 1, IF 64 * i < Len(bytes) THEN 64 * i ELSE Len(bytes))

\* C8: for a byte-sequence ikm, getHKDF returns a result exactly when
\* 0 <= extractLen <= 255 * 64; the result has extractLen bytes and is the
\* first extractLen bytes of T[1] ++ ... ++ T[ceil(extractLen / 64)], where
\* T[0] is empty and T[i] = HMAC(message = T[i-1] ++ info ++ [i], key = PRK):
\* every 64-byte chunk i of the result (the last one possibly cut short)
\* starts HMAC(chunk i-1 ++ info ++ [i], PRK).
C8_HkdfContract ==
  (call.op = "getHKDF" /\ call.ikm.u8) =>
    /\ (call.status = "ok") <=> (0 <= call.extractLen /\ call.extractLen <= 255 * 64)
    /\ (call.status = "throw") => (call.bytes = <<>>)
    /\ (call.status = "ok") =>
         /\ Len(call.bytes) = call.extractLen
         /\ \A i \in 1..((call.extractLen + 63) \div 64) :
              LET chunk == C8_Chunk(call.bytes, i)
                  ti == hmac(C8_Chunk(call.bytes, i - 1) \o call.info \o <<i>>,
                             C8_Prk(call))
              IN  /\ Len(chunk) > 0
                  /\ (i < (call.extractLen + 63) \div 64 => Len(chunk) = 64)
                  /\ chunk = SubSeq(ti, 1, Len(chunk))

\* C8 witness: a call at the upper limit returned all 255 blocks.
C8_Witness ==
  /\ call.op = "getHKDF"
  /\ call.ikm.u8
  /\ call.status = "ok"
  /\ call.extractLen = 255 * 64
  /\ Len(call.bytes) = 255 * 64

====
